---------------------------- MODULE Spec2Model ----------------------------
(***************************************************************************)
(* Model of the coin volume tracker (two Streamlit scripts):               *)
(*   src/streamlit-app.py  - Upbit + Bithumb, baseline from the ticker     *)
(*                           payload ("combined" variant)                  *)
(*   src/streamlit_app.py  - Upbit only, baseline from the daily candle    *)
(*                           endpoint, selectable sort key ("candle")      *)
(* A script run is a sequence of steps ordered by pc: button handler,      *)
(* cold-start check, the fetch functions, the store into session_state     *)
(* and the render (filter, sort, top-10).  The exchanges' HTTP answers are *)
(* the inputs, drawn from small sets.                                      *)
(*                                                                         *)
(* Numbers are exact rationals [n, d] (d > 0, lowest terms) in place of    *)
(* Python floats.  Presentation-only fields (korean_name, timestamp) are   *)
(* not part of the modelled records.                                       *)
(***************************************************************************)
EXTENDS Integers, Sequences, FiniteSets, TLC

(* ------------------------------ bounds -------------------------------- *)
\* script runs of one session (session specification)
MaxRuns == 3
\* KRW markets / coins listed by an exchange in the session specification
SessionMarkets == 1
\* KRW markets listed by Upbit in the batch specification, candle variant
BatchMarkets == 11
\* KRW markets (Upbit) and coins (Bithumb) in the batch specification,
\* combined variant
BatchAssets == 2
\* the exchange's per-asset answers repeat with at most this period
MaxPeriod == 2

(* ------------------------- program constants -------------------------- *)
ChunkSize == 100
TopN == 10
TicksPerSecond == 2

(* ----------------------------- rationals ------------------------------ *)
RECURSIVE GCD(_, _)
GCD(a, b) == IF b = 0 THEN a ELSE GCD(b, a % b)

AbsInt(x) == IF x < 0 THEN -x ELSE x

Rat(n, d) ==
    LET g == GCD(AbsInt(n), d)
    IN  [n |-> n \div g, d |-> d \div g]

RInt(k) == [n |-> k, d |-> 1]
RZero == RInt(0)
RLt(a, b) == a.n * b.d < b.n * a.d
RLe(a, b) == a.n * b.d <= b.n * a.d
RAbs(a) == [n |-> AbsInt(a.n), d |-> a.d]
RNeg(a) == [n |-> -a.n, d |-> a.d]
RSub(a, b) == Rat(a.n * b.d - b.n * a.d, a.d * b.d)
RMul(a, b) == Rat(a.n * b.n, a.d * b.d)
\* a / b for b > 0
RDiv(a, b) == Rat(a.n * b.d, a.d * b.n)

\* int(x): truncation toward zero
Trunc(a) == IF a.n >= 0 THEN a.n \div a.d ELSE -((-a.n) \div a.d)

\* round(x, 1): nearest tenth, ties to even
Round1(a) ==
    LET s  == AbsInt(a.n) * 10
        q  == s \div a.d
        r2 == 2 * (s % a.d)
        up == r2 > a.d \/ (r2 = a.d /\ q % 2 = 1)
        m  == IF up THEN q + 1 ELSE q
    IN  Rat(IF a.n < 0 THEN -m ELSE m, 10)

\* ((current - baseline) / baseline) * 100
PercentChange(cur, base) == RMul(RDiv(RSub(cur, base), base), RInt(100))

(* ---------------------------- JSON values ----------------------------- *)
\* t = "num": a JSON number n/d; "numstr": a string spelling the number n/d;
\* "str": a string that spells no number; "null"; "absent": the key is missing.
JNum(n, d) == [t |-> "num", n |-> n, d |-> d]
JNumStr(n, d) == [t |-> "numstr", n |-> n, d |-> d]
JStr == [t |-> "str", n |-> 0, d |-> 1]
JNull == [t |-> "null", n |-> 0, d |-> 1]
JAbsent == [t |-> "absent", n |-> 0, d |-> 1]
JVal(j) == Rat(j.n, j.d)

\* dict.get(key, 0)
GetOrZero(j) == IF j.t = "absent" THEN JNum(0, 1) ELSE j

\* float(x) raises on None (TypeError) and on a non-numeric string (ValueError)
FloatRaises(j) == j.t \notin {"num", "numstr"}
\* int(x) raises on None, on a non-numeric string and on a string spelling a
\* non-integer ("3.5"); it truncates a float
IntRaises(j) == ~(j.t = "num" \/ (j.t = "numstr" /\ j.d = 1))

(* ------------------------------ markets ------------------------------- *)
\* a market id "<QUOTE>-<BASE>"; base is the asset's number
Market(q, b) == [quote |-> q, base |-> b]
\* ticker.get('market', '') on a ticker without the key
EmptyMarket == Market("", 0)
AbsentMarket == Market("absent", 0)


(* ------------------- get_upbit_market_codes ---------------------------- *)
\* The market-list answer: kind "neterr" (requests.get raises), "badjson"
\* (response.json() raises), "errobj" (a JSON object, the exchange's error
\* body) or "list" (a JSON array of entries, each with or without 'market').
MarketListResponse(kind, entries) == [kind |-> kind, entries |-> entries]

\* mutant: entries without 'market' are skipped instead of failing the call
get_upbit_market_codes_skipping(resp) ==
    IF resp.kind # "list" THEN <<>>
    ELSE LET krw == SelectSeq(resp.entries, LAMBDA e : e.market.quote = "KRW")
         IN  [i \in 1..Len(krw) |-> krw[i].market]

get_upbit_market_codes(resp) ==
    IF resp.kind # "list" THEN <<>>
    ELSE IF \E i \in 1..Len(resp.entries) : resp.entries[i].market = AbsentMarket
         THEN <<>>
    ELSE LET krw == SelectSeq(resp.entries, LAMBDA e : e.market.quote = "KRW")
         IN  [i \in 1..Len(krw) |-> krw[i].market]

(* -------------------------- Upbit tickers ------------------------------ *)
UpbitTicker(obj, acc24, acc, price, scr, ts) ==
    [obj |-> obj, market |-> AbsentMarket,
     acc_trade_volume_24h |-> acc24, acc_trade_volume |-> acc,
     trade_price |-> price, signed_change_rate |-> scr, timestamp |-> ts]

\* an element of all_tickers that is no JSON object (a string, null, ...)
NonObjectTicker == UpbitTicker(FALSE, JAbsent, JAbsent, JAbsent, JAbsent, JAbsent)

\* the daily-candle answer for one market
CandleResponse(kind, candles) == [kind |-> kind, candles |-> candles]
Candle(vol) == [candle_acc_trade_volume |-> vol]

\* what the exchange holds for one asset: its ticker and its candle answer
Asset(ticker, hasMarket, candle) ==
    [ticker |-> ticker, hasMarket |-> hasMarket, candle |-> candle]

\* the asset answering the i-th requested market; answers repeat with the
\* period of the feed's pattern
ShapeAt(pattern, i) == pattern[((i - 1) % Len(pattern)) + 1]

\* market_codes[i:i+100] for i in range(0, len(market_codes), 100)
Chunks(market_codes) ==
    LET n == Len(market_codes)
        k == (n + ChunkSize - 1) \div ChunkSize
    IN  [c \in 1..k |->
            SubSeq(market_codes, (c - 1) * ChunkSize + 1,
                   IF c * ChunkSize < n THEN c * ChunkSize ELSE n)]

\* the body of the ticker answer to one chunk, as extended into all_tickers:
\* a list gives its tickers, an error object gives its single key (a string)
TickersOfChunk(feed, chunk, offset) ==
    IF feed.kind = "errobj" THEN <<NonObjectTicker>>
    ELSE [i \in 1..Len(chunk) |->
            LET a == ShapeAt(feed.pattern, offset + i)
            IN  [a.ticker EXCEPT !.market =
                    IF a.ticker.obj /\ a.hasMarket THEN chunk[i] ELSE AbsentMarket]]

\* lines 31-39 (34-39): the chunk loop; raised = an exception left the loop
RECURSIVE FetchChunks(_, _, _, _, _)
FetchChunks(feed, chunks, c, all_tickers, offset) ==
    IF c > Len(chunks)
    THEN [raised |-> FALSE, all_tickers |-> all_tickers, calls |-> Len(chunks)]
    ELSE IF feed.kind \in {"neterr", "badjson"}
    THEN [raised |-> TRUE, all_tickers |-> <<>>, calls |-> c]
    ELSE FetchChunks(feed, chunks, c + 1,
                     all_tickers \o TickersOfChunk(feed, chunks[c], offset),
                     offset + Len(chunks[c]))

(* ------------- get_upbit_volume_data (streamlit-app.py) ---------------- *)
UpbitRequired(t) ==
    <<t.acc_trade_volume_24h, t.acc_trade_volume, t.trade_price,
      t.signed_change_rate, t.timestamp>>

\* ticker[...] raises (TypeError on a non-object, KeyError on a missing key)
UpbitTickerRaises(t) ==
    \/ ~t.obj
    \/ t.market = AbsentMarket
    \/ \E k \in 1..5 : UpbitRequired(t)[k].t # "num"

UpbitRecord(t) ==
    LET vol  == JVal(t.acc_trade_volume_24h)
        prev == JVal(t.acc_trade_volume)
    IN  [exchange |-> "upbit",
         market |-> t.market,
         trade_volume |-> vol,
         trade_volume_prev |-> prev,
         trade_price |-> JVal(t.trade_price),
         signed_change_rate |-> RMul(JVal(t.signed_change_rate), RInt(100)),
         volume_change_rate |->
            IF RLt(RZero, prev) THEN PercentChange(vol, prev) ELSE RZero]

get_upbit_volume_data(market_codes, feed) ==
    LET f == FetchChunks(feed, Chunks(market_codes), 1, <<>>, 0)
        bad == \E i \in 1..Len(f.all_tickers) : UpbitTickerRaises(f.all_tickers[i])
    IN  [data |-> IF f.raised \/ bad THEN <<>>
                  ELSE [i \in 1..Len(f.all_tickers) |-> UpbitRecord(f.all_tickers[i])],
         failed |-> f.raised \/ bad,
         raised |-> f.raised,
         all_tickers |-> f.all_tickers,
         calls |-> f.calls,
         candle_calls |-> 0]

(* ---------------- get_yesterday_volume (streamlit_app.py) -------------- *)
\* the value returned: 0 on an exception, an empty list, an error object
\* (candles[0] raises KeyError) or a first candle without the field;
\* otherwise the field's value as it is
get_yesterday_volume(resp) ==
    IF resp.kind \in {"neterr", "badjson", "errobj"} THEN JNum(0, 1)
    ELSE IF Len(resp.candles) < 1 THEN JNum(0, 1)
    ELSE IF resp.candles[1].candle_acc_trade_volume.t = "absent" THEN JNum(0, 1)
    ELSE resp.candles[1].candle_acc_trade_volume

(* ------------- get_upbit_volume_data (streamlit_app.py) ---------------- *)
\* lines 76-108 for one object ticker: the record, or dropped when a
\* conversion raises inside the inner try
CandleToday(t) == GetOrZero(t.acc_trade_volume_24h)
CandleDropsBeforeCall(t) == IntRaises(CandleToday(t))
CandleDrops(t, candle) ==
    \/ IntRaises(CandleToday(t))
    \/ IntRaises(get_yesterday_volume(candle))
    \/ GetOrZero(t.signed_change_rate).t # "num"

\* mutant: the rate is computed from the volumes before int() cut them
CandleRecordFromRaw(t, candle) ==
    LET today     == JVal(CandleToday(t))
        yesterday == JVal(get_yesterday_volume(candle))
    IN  [exchange |-> "upbit",
         market |-> IF t.market = AbsentMarket THEN EmptyMarket ELSE t.market,
         today_volume |-> RInt(Trunc(today)),
         yesterday_volume |-> RInt(Trunc(yesterday)),
         trade_price |-> JVal(GetOrZero(t.trade_price)),
         signed_change_rate |->
            RMul(JVal(GetOrZero(t.signed_change_rate)), RInt(100)),
         volume_change_rate |->
            IF Trunc(yesterday) > 0
            THEN Round1(PercentChange(today, yesterday))
            ELSE RZero]

CandleRecord(t, candle) ==
    LET today_volume     == Trunc(JVal(CandleToday(t)))
        yesterday_volume == Trunc(JVal(get_yesterday_volume(candle)))
    IN  [exchange |-> "upbit",
         market |-> IF t.market = AbsentMarket THEN EmptyMarket ELSE t.market,
         today_volume |-> RInt(today_volume),
         yesterday_volume |-> RInt(yesterday_volume),
         trade_price |-> JVal(GetOrZero(t.trade_price)),
         signed_change_rate |->
            RMul(JVal(GetOrZero(t.signed_change_rate)), RInt(100)),
         volume_change_rate |->
            IF yesterday_volume > 0
            THEN Round1(PercentChange(RInt(today_volume), RInt(yesterday_volume)))
            ELSE RZero]

\* lines 75-111: the ticker loop. A non-object ticker raises inside the inner
\* handler (ticker.get), which the outer handler turns into [].
RECURSIVE CandleLoop(_, _, _, _, _)
CandleLoop(all_tickers, feed, i, volume_data, candle_calls) ==
    IF i > Len(all_tickers)
    THEN [raised |-> FALSE, data |-> volume_data, candle_calls |-> candle_calls]
    ELSE LET t == all_tickers[i]
             c == ShapeAt(feed.pattern, i).candle
         IN  IF ~t.obj
             THEN [raised |-> TRUE, data |-> <<>>, candle_calls |-> candle_calls]
             ELSE IF CandleDropsBeforeCall(t)
             THEN CandleLoop(all_tickers, feed, i + 1, volume_data, candle_calls)
             ELSE IF CandleDrops(t, c)
             THEN CandleLoop(all_tickers, feed, i + 1, volume_data, candle_calls + 1)
             ELSE CandleLoop(all_tickers, feed, i + 1,
                             Append(volume_data, CandleRecord(t, c)),
                             candle_calls + 1)

get_upbit_volume_data_candle(market_codes, feed) ==
    LET f == FetchChunks(feed, Chunks(market_codes), 1, <<>>, 0)
        l == CandleLoop(f.all_tickers, feed, 1, <<>>, 0)
    IN  [data |-> IF f.raised THEN <<>> ELSE l.data,
         failed |-> f.raised \/ l.raised,
         raised |-> f.raised,
         all_tickers |-> f.all_tickers,
         calls |-> f.calls,
         candle_calls |-> IF f.raised THEN 0 ELSE l.candle_calls]

(* ------------------- get_bithumb_volume_data --------------------------- *)
\* the key 'date' of the answer's data object
DateKey == 0

BithumbTicker(obj, v1, v7, price, rate) ==
    [obj |-> obj, volume_1day |-> v1, volume_7day |-> v7,
     closing_price |-> price, fluctate_rate_24H |-> rate]

\* kind "neterr", "badjson" or "json"; status "0000", another code, or "absent";
\* data: the (coin, ticker) items of data['data'] in the answer's order
BithumbResponse(kind, status, data) ==
    [kind |-> kind, status |-> status, data |-> data]

\* lines 85-95 raise: ticker[...] on a non-object or a missing key, float()
\* on a non-numeric value
BithumbTickerRaises(t) ==
    \/ ~t.obj
    \/ FloatRaises(t.volume_1day)
    \/ FloatRaises(t.volume_7day)
    \/ FloatRaises(t.closing_price)
    \/ FloatRaises(t.fluctate_rate_24H)

BithumbRecord(coin, t) ==
    LET volume_24h  == JVal(t.volume_1day)
        volume_prev == RDiv(JVal(t.volume_7day), RInt(7))
    IN  [exchange |-> "bithumb",
         market |-> Market("KRW", coin),
         trade_volume |-> volume_24h,
         trade_volume_prev |-> volume_prev,
         trade_price |-> JVal(t.closing_price),
         signed_change_rate |-> JVal(t.fluctate_rate_24H),
         volume_change_rate |->
            IF RLt(RZero, volume_prev)
            THEN PercentChange(volume_24h, volume_prev) ELSE RZero]

RECURSIVE BithumbLoop(_, _, _)
BithumbLoop(items, i, volume_data) ==
    IF i > Len(items) THEN volume_data
    ELSE IF items[i].coin = DateKey
    THEN BithumbLoop(items, i + 1, volume_data)
    ELSE IF BithumbTickerRaises(items[i].ticker)
    THEN BithumbLoop(items, i + 1, volume_data)
    ELSE BithumbLoop(items, i + 1,
                     Append(volume_data, BithumbRecord(items[i].coin, items[i].ticker)))

BithumbFails(resp) == resp.kind # "json" \/ resp.status # "0000"

get_bithumb_volume_data(resp) ==
    IF BithumbFails(resp) THEN <<>> ELSE BithumbLoop(resp.data, 1, <<>>)

(* ------------------------------ sorted() ------------------------------- *)
\* the three sort keys of streamlit_app.py; "abs" is also the key of
\* get_combined_volume_data
AbsRate(x) == RAbs(x.volume_change_rate)

\* mutant: the positive-first key tests rate >= 0
KeyLtZeroFirst(key, a, b) ==
    CASE key = "abs" -> RLt(AbsRate(a), AbsRate(b))
      [] key = "positive_first" ->
            LET ga == IF RLe(RZero, a.volume_change_rate) THEN -1 ELSE 1
                gb == IF RLe(RZero, b.volume_change_rate) THEN -1 ELSE 1
            IN  ga < gb \/ (ga = gb /\ RLt(RNeg(AbsRate(a)), RNeg(AbsRate(b))))
      [] key = "today_volume" -> RLt(a.today_volume, b.today_volume)

\* key(a) < key(b)
KeyLt(key, a, b) ==
    CASE key = "abs" -> RLt(AbsRate(a), AbsRate(b))
      [] key = "positive_first" ->
            LET ga == IF RLt(RZero, a.volume_change_rate) THEN -1 ELSE 1
                gb == IF RLt(RZero, b.volume_change_rate) THEN -1 ELSE 1
            IN  ga < gb \/ (ga = gb /\ RLt(RNeg(AbsRate(a)), RNeg(AbsRate(b))))
      [] key = "today_volume" -> RLt(a.today_volume, b.today_volume)

Reverse(s) == [i \in 1..Len(s) |-> s[Len(s) + 1 - i]]

\* x goes behind every element whose key is not greater than its own
RECURSIVE InsertStable(_, _, _)
InsertStable(key, sorted, x) ==
    IF sorted = <<>> THEN <<x>>
    ELSE IF KeyLt(key, x, sorted[1]) THEN <<x>> \o sorted
    ELSE <<sorted[1]>> \o InsertStable(key, Tail(sorted), x)

RECURSIVE SortAscending(_, _, _, _)
SortAscending(key, s, i, acc) ==
    IF i > Len(s) THEN acc
    ELSE SortAscending(key, s, i + 1, InsertStable(key, acc, s[i]))

\* mutant: reverse only reverses the ascending result
SortedThenReversed(s, key, reverse) ==
    IF reverse THEN Reverse(SortAscending(key, s, 1, <<>>))
    ELSE SortAscending(key, s, 1, <<>>)

\* sorted(s, key=..., reverse=...): a stable ascending sort; with reverse
\* the list is reversed before and after it, which keeps equal keys in
\* their original order
Sorted(s, key, reverse) ==
    IF reverse THEN Reverse(SortAscending(key, Reverse(s), 1, <<>>))
    ELSE SortAscending(key, s, 1, <<>>)

(* ------------------- get_combined_volume_data -------------------------- *)
get_combined_volume_data(upbit_data, bithumb_data) ==
    Sorted(upbit_data \o bithumb_data, "abs", TRUE)

(* ------------------------- filter, sort, top 10 ------------------------ *)
\* streamlit-app.py lines 168-173
FilterCombined(data, exchange_filter, min_volume, min_change_rate) ==
    SelectSeq(data, LAMBDA item :
        /\ item.exchange \in exchange_filter
        /\ RLe(RInt(min_volume), item.trade_volume)
        /\ RLe(RInt(min_change_rate), AbsRate(item)))

\* mutant: the volume test is strict
FilterCandleStrict(volume_data, min_volume, min_change_rate) ==
    SelectSeq(volume_data, LAMBDA item :
        /\ RLt(RInt(min_volume), item.today_volume)
        /\ RLe(RInt(min_change_rate), AbsRate(item)))

\* streamlit_app.py lines 159-163
FilterCandle(volume_data, min_volume, min_change_rate) ==
    SelectSeq(volume_data, LAMBDA item :
        /\ RLe(RInt(min_volume), item.today_volume)
        /\ RLe(RInt(min_change_rate), AbsRate(item)))

\* streamlit_app.py lines 166-171
SortBy(filtered_data, sort_by) ==
    IF sort_by = "abs" THEN Sorted(filtered_data, "abs", TRUE)
    ELSE IF sort_by = "positive_first" THEN Sorted(filtered_data, "positive_first", FALSE)
    ELSE Sorted(filtered_data, "today_volume", TRUE)

\* s[:n]
FirstN(s, n) == SubSeq(s, 1, IF Len(s) < n THEN Len(s) ELSE n)

\* streamlit-app.py line 183
Top10Combined(filtered_data) == FirstN(filtered_data, TopN)

\* streamlit_app.py line 182
Top10Candle(sorted_data) == Sorted(FirstN(sorted_data, TopN), "abs", TRUE)

\* datetime.now().strftime("%Y-%m-%d %H:%M:%S"): the clock cut to seconds
strftime(now) == now \div TicksPerSecond

(* ----------------------- the exchanges' answers ------------------------ *)
Price == JNum(1, 1)
PriceRate == JNum(1, 100)
Stamp == JNum(1000, 1)
NoCandle == CandleResponse("list", <<>>)

\* a well-formed Upbit ticker of streamlit-app.py
GoodUpbit(acc24, acc) == UpbitTicker(TRUE, acc24, acc, Price, PriceRate, Stamp)

\* assets as Upbit answers them to streamlit-app.py
UpbitAssets ==
    { Asset(GoodUpbit(JNum(3, 1), JNum(2, 1)), TRUE, NoCandle),
      Asset(GoodUpbit(JNum(1, 1), JNum(2, 1)), TRUE, NoCandle),
      Asset(GoodUpbit(JNum(2, 1), JNum(0, 1)), TRUE, NoCandle),
      Asset(GoodUpbit(JNum(5, 2), JNum(2, 1)), TRUE, NoCandle),
      Asset(GoodUpbit(JNum(3, 1), JAbsent), TRUE, NoCandle),
      Asset(NonObjectTicker, FALSE, NoCandle) }

\* a ticker of streamlit_app.py with its 24h volume, and a candle answer
CandleTicker(acc24) == UpbitTicker(TRUE, acc24, JAbsent, Price, PriceRate, Stamp)
CandleList(vol) == CandleResponse("list", <<Candle(vol), Candle(JNum(9, 1))>>)

\* assets as Upbit answers them to streamlit_app.py
CandleAssets ==
    { Asset(CandleTicker(JNum(3, 1)), TRUE, CandleList(JNum(2, 1))),
      Asset(CandleTicker(JNum(1, 1)), TRUE, CandleList(JNum(2, 1))),
      Asset(CandleTicker(JNum(5, 2)), TRUE, CandleList(JNum(7, 2))),
      Asset(CandleTicker(JNum(2, 1)), TRUE, CandleResponse("list", <<>>)),
      Asset(CandleTicker(JNum(2, 1)), TRUE, CandleResponse("neterr", <<>>)),
      Asset(CandleTicker(JNum(2, 1)), TRUE, CandleResponse("errobj", <<>>)),
      Asset(CandleTicker(JNum(2, 1)), TRUE, CandleList(JAbsent)),
      Asset(CandleTicker(JNum(2, 1)), TRUE, CandleList(JNull)),
      Asset(CandleTicker(JNull), TRUE, CandleList(JNum(2, 1))),
      Asset(NonObjectTicker, FALSE, NoCandle) }

GoodBithumb(v1, v7) == BithumbTicker(TRUE, v1, v7, JNumStr(1, 1), JNumStr(1, 1))

BithumbTickers ==
    { GoodBithumb(JNumStr(3, 1), JNumStr(14, 1)),
      GoodBithumb(JNumStr(1, 1), JNumStr(14, 1)),
      GoodBithumb(JNumStr(2, 1), JNumStr(0, 1)),
      GoodBithumb(JNumStr(2, 1), JNumStr(10, 1)),
      GoodBithumb(JStr, JNumStr(14, 1)),
      BithumbTicker(FALSE, JAbsent, JAbsent, JAbsent, JAbsent) }

\* sequences over S of length 1..n
RECURSIVE SeqsUpTo(_, _)
SeqsUpTo(S, n) ==
    IF n = 0 THEN {}
    ELSE LET shorter == SeqsUpTo(S, n - 1)
         IN  {<<x>> : x \in S} \cup shorter
             \cup {Append(q, x) : q \in {r \in shorter : Len(r) = n - 1}, x \in S}

FailKinds == {"neterr", "badjson", "errobj"}

KrwMarkets(n) == [i \in 1..n |-> [market |-> Market("KRW", i)]]

\* market-list answers: a failure, or n KRW markets, alone, behind a BTC
\* market, or followed by an entry without 'market'
MarketLists(maxN) ==
    {MarketListResponse(k, <<>>) : k \in FailKinds}
    \cup {MarketListResponse("list", KrwMarkets(n)) : n \in 0..maxN}
    \cup {MarketListResponse("list", <<[market |-> Market("BTC", 1)]>> \o KrwMarkets(n)) :
            n \in 0..maxN}
    \cup {MarketListResponse("list", Append(KrwMarkets(maxN), [market |-> AbsentMarket]))}

Feed(kind, pattern) == [kind |-> kind, pattern |-> pattern]

\* ticker (and candle) answers: a failure of the ticker call, or the assets
Feeds(assets, period) ==
    {Feed(k, <<CHOOSE a \in assets : TRUE>>) : k \in FailKinds}
    \cup {Feed("list", p) : p \in SeqsUpTo(assets, period)}

\* Bithumb answers: a failure, an error status, or n coins and the 'date' key
BithumbItems(pattern, n) ==
    [i \in 1..(n + 1) |->
        IF i = n + 1
        THEN [coin |-> DateKey, ticker |-> BithumbTicker(FALSE, JAbsent, JAbsent, JAbsent, JAbsent)]
        ELSE [coin |-> i, ticker |-> ShapeAt(pattern, i)]]

BithumbResponses(maxN, period) ==
    {BithumbResponse(k, "absent", <<>>) : k \in {"neterr", "badjson"}}
    \cup {BithumbResponse("json", st, <<>>) : st \in {"5500", "absent"}}
    \cup {BithumbResponse("json", "0000", BithumbItems(p, n)) :
            p \in SeqsUpTo(BithumbTickers, period), n \in 0..maxN}

ExchangeSets == SUBSET {"upbit", "bithumb"}
MinVolumes == {0, 2}
MinChangeRates == {0, 50}
SortKeys == {"abs", "positive_first", "today_volume"}

(* ------------------------------ state ---------------------------------- *)
VARIABLES
    scope,          \* "session": several runs, few assets; "batch": one run
    variant,        \* "combined" (streamlit-app.py) or "candle" (streamlit_app.py)
    pc,             \* position of the script run
    caller,         \* who called the fetch: "button" or "coldstart"
    runs,           \* script runs started so far
    now,            \* the clock, in ticks
    button,         \* st.button(...) of this run
    session_state,  \* st.session_state: data / volume_data and last_update
    writer,         \* the run that wrote each key of session_state
    cache0,         \* session_state as the run found it
    calls,          \* HTTP calls of this run, per endpoint
    ok_calls,       \* HTTP calls of this run that were answered without failure
    market_codes,   \* result of get_upbit_market_codes
    markets_failed, \* the market-list fetch failed
    upbit,          \* result of get_upbit_volume_data, the tickers it was given
                    \* and whether the ticker call itself failed
    candles,        \* the candle answer for each element of all_tickers
    bithumb_resp,   \* the Bithumb answer
    bithumb_data,   \* result of get_bithumb_volume_data
    view            \* what the run rendered

vars == <<scope, variant, pc, caller, runs, now, button, session_state, writer,
          cache0, calls, ok_calls, market_codes, markets_failed, upbit, candles,
          bithumb_resp, bithumb_data, view>>

NoSession == [has_data |-> FALSE, data |-> <<>>,
              has_last_update |-> FALSE, last_update |-> 0]
NoCalls == [markets |-> 0, ticker |-> 0, candle |-> 0, bithumb |-> 0]
NoUpbit == [data |-> <<>>, failed |-> FALSE, raised |-> FALSE, all_tickers |-> <<>>,
            calls |-> 0, candle_calls |-> 0, bulk_failed |-> FALSE, done |-> FALSE]
NoBithumb == BithumbResponse("none", "absent", <<>>)
NoView == [shown |-> FALSE, last_update |-> 0, data |-> <<>>,
           exchange_filter |-> {}, min_volume |-> 0, min_change_rate |-> 0,
           sort_by |-> "abs", filtered_data |-> <<>>, sorted_data |-> <<>>,
           top10 |-> <<>>]

RunsOf(sc) == IF sc = "session" THEN MaxRuns ELSE 1
MarketsOf(sc, v) ==
    IF sc = "session" THEN SessionMarkets
    ELSE IF v = "candle" THEN BatchMarkets ELSE BatchAssets
CoinsOf(sc) == IF sc = "session" THEN SessionMarkets ELSE BatchAssets
PeriodOf(sc) == IF sc = "session" THEN 1 ELSE MaxPeriod
AssetsOf(v) == IF v = "candle" THEN CandleAssets ELSE UpbitAssets

InitCommon ==
    /\ variant \in {"combined", "candle"}
    /\ pc = "idle"
    /\ caller = "none"
    /\ runs = 0
    /\ now = 0
    /\ button = FALSE
    /\ session_state = NoSession
    /\ writer = [data |-> 0, last_update |-> 0]
    /\ cache0 = NoSession
    /\ calls = NoCalls
    /\ ok_calls = 0
    /\ market_codes = <<>>
    /\ markets_failed = FALSE
    /\ upbit = NoUpbit
    /\ candles = <<>>
    /\ bithumb_resp = NoBithumb
    /\ bithumb_data = <<>>
    /\ view = NoView

Init == scope = "session" /\ InitCommon

InitBatch == scope = "batch" /\ InitCommon

(* ------------------------------ actions -------------------------------- *)
\* a script run starts: the first load, or a rerun caused by the button or
\* by a changed filter / sort widget
Rerun ==
    /\ pc = "idle"
    /\ runs < RunsOf(scope)
    /\ runs' = runs + 1
    /\ now' = now + 1
    /\ button' \in (IF runs = 0 THEN {FALSE} ELSE BOOLEAN)
    /\ cache0' = session_state
    /\ calls' = NoCalls
    /\ ok_calls' = 0
    /\ view' = NoView
    /\ pc' = "button"
    /\ UNCHANGED <<scope, variant, caller, session_state, writer, market_codes,
                   markets_failed, upbit, candles, bithumb_resp, bithumb_data>>

\* st.session_state.last_update = datetime.now().strftime(...)
SetLastUpdate ==
    /\ session_state' = [session_state EXCEPT !.has_last_update = TRUE,
                                               !.last_update = strftime(now)]
    /\ writer' = [writer EXCEPT !.last_update = runs]

\* if st.button("..."): the refresh starts
ButtonHandler ==
    /\ pc = "button"
    /\ IF button
       THEN /\ SetLastUpdate
            /\ caller' = "button"
            /\ pc' = "markets"
       ELSE /\ pc' = "coldstart"
            /\ UNCHANGED <<session_state, writer, caller>>
    /\ UNCHANGED <<scope, variant, runs, now, button, cache0, calls, ok_calls,
                   market_codes, markets_failed, upbit, candles, bithumb_resp,
                   bithumb_data, view>>

\* mutant: the first-load branch is taken on every run
ColdStartAlways(ss) == TRUE

\* if 'data' not in st.session_state or 'last_update' not in st.session_state
ColdStartNeeded(ss) == ~ss.has_data \/ ~ss.has_last_update

ColdStart ==
    /\ pc = "coldstart"
    /\ IF ColdStartNeeded(session_state)
       THEN /\ SetLastUpdate
            /\ caller' = "coldstart"
            /\ pc' = "markets"
       ELSE /\ pc' = "render"
            /\ UNCHANGED <<session_state, writer, caller>>
    /\ UNCHANGED <<scope, variant, runs, now, button, cache0, calls, ok_calls,
                   market_codes, markets_failed, upbit, candles, bithumb_resp,
                   bithumb_data, view>>

MarketListFails(resp) ==
    \/ resp.kind # "list"
    \/ \E i \in 1..Len(resp.entries) : resp.entries[i].market = AbsentMarket

FetchMarkets ==
    /\ pc = "markets"
    /\ \E resp \in MarketLists(MarketsOf(scope, variant)) :
        /\ market_codes' = get_upbit_market_codes(resp)
        /\ markets_failed' = MarketListFails(resp)
        /\ ok_calls' = ok_calls + (IF MarketListFails(resp) THEN 0 ELSE 1)
    /\ calls' = [calls EXCEPT !.markets = @ + 1]
    /\ upbit' = NoUpbit
    /\ candles' = <<>>
    /\ bithumb_resp' = NoBithumb
    /\ bithumb_data' = <<>>
    /\ pc' = "tickers"
    /\ UNCHANGED <<scope, variant, caller, runs, now, button, session_state,
                   writer, cache0, view>>

FetchUpbit ==
    /\ pc = "tickers"
    /\ \E feed \in Feeds(AssetsOf(variant), PeriodOf(scope)) :
        LET r == IF variant = "candle"
                 THEN get_upbit_volume_data_candle(market_codes, feed)
                 ELSE get_upbit_volume_data(market_codes, feed)
        IN  /\ upbit' = [data |-> r.data, failed |-> r.failed, raised |-> r.raised,
                         all_tickers |-> r.all_tickers, calls |-> r.calls,
                         candle_calls |-> r.candle_calls,
                         bulk_failed |-> r.raised \/ (feed.kind = "errobj" /\ r.calls > 0),
                         done |-> TRUE]
            /\ candles' = IF variant = "candle"
                          THEN [i \in 1..Len(r.all_tickers) |-> ShapeAt(feed.pattern, i).candle]
                          ELSE <<>>
            /\ calls' = [calls EXCEPT !.ticker = @ + r.calls,
                                      !.candle = @ + r.candle_calls]
            /\ ok_calls' = ok_calls + (IF r.raised \/ feed.kind = "errobj"
                                       THEN 0 ELSE r.calls)
    /\ pc' = IF variant = "combined" THEN "bithumb" ELSE "store"
    /\ UNCHANGED <<scope, variant, caller, runs, now, button, session_state,
                   writer, cache0, market_codes, markets_failed, bithumb_resp,
                   bithumb_data, view>>

FetchBithumb ==
    /\ pc = "bithumb"
    /\ \E resp \in BithumbResponses(CoinsOf(scope), PeriodOf(scope)) :
        /\ bithumb_resp' = resp
        /\ bithumb_data' = get_bithumb_volume_data(resp)
        /\ ok_calls' = ok_calls + (IF BithumbFails(resp) THEN 0 ELSE 1)
    /\ calls' = [calls EXCEPT !.bithumb = @ + 1]
    /\ pc' = "store"
    /\ UNCHANGED <<scope, variant, caller, runs, now, button, session_state,
                   writer, cache0, market_codes, markets_failed, upbit, candles,
                   view>>

\* the value the refresh assigns to st.session_state.data / .volume_data
Fetched(v, upbit_data, bithumb_rows) ==
    IF v = "combined" THEN get_combined_volume_data(upbit_data, bithumb_rows)
    ELSE upbit_data

\* mutant: an empty result does not replace the cached batch
StoredStateUnlessEmpty(ss, value) ==
    IF value = <<>> THEN [ss EXCEPT !.has_data = TRUE]
    ELSE [ss EXCEPT !.has_data = TRUE, !.data = value]

\* st.session_state.data = get_combined_volume_data()
StoredState(ss, value) == [ss EXCEPT !.has_data = TRUE, !.data = value]

Store ==
    /\ pc = "store"
    /\ session_state' =
          StoredState(session_state, Fetched(variant, upbit.data, bithumb_data))
    /\ writer' = [writer EXCEPT !.data = runs]
    /\ pc' = IF caller = "button" THEN "coldstart" ELSE "render"
    /\ UNCHANGED <<scope, variant, caller, runs, now, button, cache0, calls,
                   ok_calls, market_codes, markets_failed, upbit, candles,
                   bithumb_resp, bithumb_data, view>>

\* the rest of the script: read the cache, filter, sort, top 10
Rendered(v, ss, exchange_filter, min_volume, min_change_rate, sort_by) ==
    LET filtered_data ==
            IF v = "combined"
            THEN FilterCombined(ss.data, exchange_filter, min_volume, min_change_rate)
            ELSE FilterCandle(ss.data, min_volume, min_change_rate)
        sorted_data == IF v = "combined" THEN filtered_data
                       ELSE SortBy(filtered_data, sort_by)
    IN  [shown |-> TRUE, last_update |-> ss.last_update, data |-> ss.data,
         exchange_filter |-> exchange_filter, min_volume |-> min_volume,
         min_change_rate |-> min_change_rate, sort_by |-> sort_by,
         filtered_data |-> filtered_data, sorted_data |-> sorted_data,
         top10 |-> IF v = "combined" THEN Top10Combined(filtered_data)
                   ELSE Top10Candle(sorted_data)]

Render ==
    /\ pc = "render"
    /\ \E exchange_filter \in (IF variant = "combined" THEN ExchangeSets ELSE {{"upbit"}}),
          min_volume \in MinVolumes, min_change_rate \in MinChangeRates,
          sort_by \in (IF variant = "combined" THEN {"abs"} ELSE SortKeys) :
        view' = Rendered(variant, session_state, exchange_filter, min_volume,
                         min_change_rate, sort_by)
    /\ market_codes' = <<>>
    /\ markets_failed' = FALSE
    /\ upbit' = NoUpbit
    /\ candles' = <<>>
    /\ bithumb_resp' = NoBithumb
    /\ bithumb_data' = <<>>
    /\ caller' = "none"
    /\ pc' = "idle"
    /\ UNCHANGED <<scope, variant, runs, now, button, session_state, writer,
                   cache0, calls, ok_calls>>

Next ==
    \/ Rerun
    \/ ButtonHandler
    \/ ColdStart
    \/ FetchMarkets
    \/ FetchUpbit
    \/ FetchBithumb
    \/ Store
    \/ Render

Spec == Init /\ [][Next]_vars

SpecBatch == InitBatch /\ [][Next]_vars

(* ------------------------------ helpers -------------------------------- *)
Range(s) == {s[i] : i \in 1..Len(s)}
Pos(s, r) == CHOOSE i \in 1..Len(s) : s[i] = r
NoRepeats(s) == \A i, j \in 1..Len(s) : s[i] = s[j] => i = j
SameRecords(a, b) == Len(a) = Len(b) /\ Range(a) = Range(b)
MinOf(a, b) == IF a < b THEN a ELSE b

\* the fetch of this run has stored its result
Refreshed == writer.data = runs /\ runs > 0

(* C1: the chart's records are the TopN records of the filtered set with the
   largest |volume_change_rate| (all of them when there are fewer), whatever
   the sort key. *)
ChartShowsLargestRates ==
    view.shown =>
        LET F == view.filtered_data
            T == view.top10
        IN  /\ Len(T) = MinOf(TopN, Len(F))
            /\ Range(T) \subseteq Range(F)
            /\ \A r \in Range(F) \ Range(T) : \A t \in Range(T) :
                    RLe(AbsRate(r), AbsRate(t))

(* C2: a record is in the filtered output iff its exchange is allowed, its
   current volume >= min_volume and |volume_change_rate| >= min_change_rate;
   nothing is added, duplicated or altered and the cached order is kept. *)
CurrentVolume(r) == IF variant = "combined" THEN r.trade_volume ELSE r.today_volume

Passes(r) ==
    /\ r.exchange \in view.exchange_filter
    /\ ~RLt(CurrentVolume(r), RInt(view.min_volume))
    /\ ~RLt(AbsRate(r), RInt(view.min_change_rate))

FilterIsExactConjunction ==
    view.shown =>
        LET F == view.filtered_data
            D == view.data
        IN  /\ Range(F) = {r \in Range(D) : Passes(r)}
            /\ NoRepeats(F)
            /\ \A i, j \in 1..Len(F) : i < j => Pos(D, F[i]) < Pos(D, F[j])

FilterWitness ==
    /\ view.shown
    /\ view.min_volume > 0
    /\ view.min_change_rate > 0
    /\ Len(view.filtered_data) >= 1
    /\ Len(view.filtered_data) < Len(view.data)
    /\ \E r \in Range(view.data) :
          r.exchange \notin view.exchange_filter /\ ~RLt(CurrentVolume(r), RInt(view.min_volume))

(* C3: when the bulk fetch of one exchange fails (also the market-list
   fetch), that exchange contributes nothing and the aggregated batch holds
   exactly the other exchange's records; the refresh completes and stores. *)
UpbitFetchFailed == markets_failed \/ upbit.bulk_failed

OneExchangeFailureIsolated ==
    (variant = "combined" /\ Refreshed /\ upbit.done) =>
        /\ session_state.has_data
        /\ UpbitFetchFailed =>
              /\ upbit.data = <<>>
              /\ SameRecords(session_state.data, bithumb_data)
        /\ BithumbFails(bithumb_resp) =>
              /\ bithumb_data = <<>>
              /\ SameRecords(session_state.data, upbit.data)

OneExchangeFailureWitness ==
    /\ variant = "combined" /\ Refreshed /\ upbit.done
    /\ markets_failed
    /\ ~BithumbFails(bithumb_resp)
    /\ Len(session_state.data) >= 1

(* C4: after a successful bulk fetch every well-formed ticker yields its
   record, whatever the other tickers of the batch look like, in each of the
   three normalizers. *)
WellFormedUpbit(t) ==
    /\ t.obj
    /\ t.market # AbsentMarket
    /\ \A k \in 1..5 : UpbitRequired(t)[k].t = "num"

ReadableCandle(c) ==
    /\ c.kind = "list"
    /\ Len(c.candles) >= 1
    /\ c.candles[1].candle_acc_trade_volume.t = "num"

WellFormedCandleTicker(t) ==
    /\ t.obj
    /\ t.market # AbsentMarket
    /\ t.acc_trade_volume_24h.t = "num"
    /\ t.signed_change_rate.t = "num"
    /\ t.trade_price.t = "num"

WellFormedBithumb(t) ==
    /\ t.obj
    /\ \A j \in {t.volume_1day, t.volume_7day, t.closing_price, t.fluctate_rate_24H} :
          j.t \in {"num", "numstr"}

HasRecord(data, market) == \E r \in Range(data) : r.market = market

BadRecordNeverAbortsBatch ==
    /\ (upbit.done /\ ~upbit.bulk_failed) =>
          \A i \in 1..Len(upbit.all_tickers) :
             LET t == upbit.all_tickers[i]
             IN  (IF variant = "combined" THEN WellFormedUpbit(t)
                  ELSE WellFormedCandleTicker(t) /\ ReadableCandle(candles[i]))
                 => HasRecord(upbit.data, t.market)
    /\ (bithumb_resp.kind = "json" /\ bithumb_resp.status = "0000") =>
          \A i \in 1..Len(bithumb_resp.data) :
             LET it == bithumb_resp.data[i]
             IN  (it.coin # DateKey /\ WellFormedBithumb(it.ticker))
                 => HasRecord(bithumb_data, Market("KRW", it.coin))

(* C5: every emitted record's volume_change_rate is 0 when its stored baseline
   is 0 and otherwise ((current - baseline) / baseline) * 100 of its own stored
   volumes, to the nearest tenth in the candle variant. *)
RateMatches(cur, base, rate, rounded) ==
    IF base = RZero THEN rate = RZero
    ELSE LET exact100 == RMul(RSub(cur, base), RInt(100))
             err == RAbs(RSub(RMul(rate, base), exact100))
         IN  IF rounded
             THEN /\ 10 % rate.d = 0
                  /\ RLe(RMul(err, RInt(20)), base)
             ELSE err = RZero

RecordRateOk(r) ==
    IF variant = "candle"
    THEN RateMatches(r.today_volume, r.yesterday_volume, r.volume_change_rate, TRUE)
    ELSE RateMatches(r.trade_volume, r.trade_volume_prev, r.volume_change_rate, FALSE)

ChangeRateDefined ==
    \A r \in Range(upbit.data) \cup Range(bithumb_data) \cup Range(session_state.data) :
        RecordRateOk(r)

BaselineOf(r) == IF variant = "candle" THEN r.yesterday_volume ELSE r.trade_volume_prev

ChangeRateWitness ==
    /\ \E r \in Range(session_state.data) : BaselineOf(r) = RZero
    /\ \E r \in Range(session_state.data) :
          BaselineOf(r) # RZero /\ r.volume_change_rate.d # 1

(* C6: a run that is neither a button press nor a first load leaves the cache
   as it found it and fetches nothing; the first-load fetch runs only when the
   button refresh did not; what a render reads was written, batch and
   timestamp, by one and the same refresh. *)
CacheChangesOnlyOnRefresh ==
    /\ (runs > 0 /\ ~button /\ ~(~cache0.has_data \/ ~cache0.has_last_update)) =>
          /\ session_state = cache0
          /\ calls = NoCalls
    /\ caller = "coldstart" => ~button
    /\ (pc = "render" \/ view.shown) =>
          /\ session_state.has_data /\ session_state.has_last_update
          /\ writer.data = writer.last_update
    /\ view.shown =>
          /\ view.data = session_state.data
          /\ view.last_update = session_state.last_update

CacheWitness ==
    /\ runs >= 3
    /\ ~button
    /\ view.shown
    /\ view.min_volume > 0
    /\ writer.data = 2
    /\ Len(session_state.data) >= 1

(* C7: under the positive-first key the output is a permutation of the
   filtered set, every record with rate > 0 precedes every record with
   rate <= 0, and each group is in non-increasing |rate|. *)
IsPositive(r) == RLt(RZero, r.volume_change_rate)

PositiveFirstOrder ==
    (view.shown /\ variant = "candle" /\ view.sort_by = "positive_first") =>
        LET S == view.sorted_data
        IN  /\ SameRecords(S, view.filtered_data)
            /\ \A i, j \in 1..Len(S) : i < j =>
                  /\ ~(~IsPositive(S[i]) /\ IsPositive(S[j]))
                  /\ (IsPositive(S[i]) = IsPositive(S[j]))
                        => RLe(AbsRate(S[j]), AbsRate(S[i]))

PositiveFirstWitness ==
    /\ view.shown /\ variant = "candle" /\ view.sort_by = "positive_first"
    /\ view.sorted_data # view.filtered_data
    /\ \E r \in Range(view.sorted_data) : IsPositive(r)
    /\ \E r \in Range(view.sorted_data) : r.volume_change_rate = RZero
    /\ Len(view.sorted_data) >= 3

(* C8: every sort is stable: records with equal sort keys keep the relative
   order of the sequence that was sorted (for the aggregation: Upbit's records
   before Bithumb's, each in fetch order). *)
SameKey(key, a, b) ==
    CASE key = "abs" -> AbsRate(a) = AbsRate(b)
      [] key = "positive_first" ->
            IsPositive(a) = IsPositive(b) /\ AbsRate(a) = AbsRate(b)
      [] key = "today_volume" -> a.today_volume = b.today_volume

StableFrom(key, out, in) ==
    \A i, j \in 1..Len(out) :
        (i < j /\ SameKey(key, out[i], out[j])) => Pos(in, out[i]) < Pos(in, out[j])

SortIsStable ==
    /\ (view.shown /\ variant = "candle") =>
          /\ SameRecords(view.sorted_data, view.filtered_data)
          /\ StableFrom(view.sort_by, view.sorted_data, view.filtered_data)
    /\ (variant = "combined" /\ Refreshed /\ upbit.done) =>
          /\ SameRecords(session_state.data, upbit.data \o bithumb_data)
          /\ StableFrom("abs", session_state.data, upbit.data \o bithumb_data)

SortStableWitness ==
    /\ variant = "combined" /\ Refreshed /\ upbit.done
    /\ \E i, j \in 1..Len(session_state.data) :
          /\ i < j
          /\ session_state.data[i].exchange = "upbit"
          /\ session_state.data[j].exchange = "bithumb"
          /\ SameKey("abs", session_state.data[i], session_state.data[j])
    /\ session_state.data # upbit.data \o bithumb_data

(* C9: in the candle variant an asset whose baseline call fails (exception,
   empty candle list, no readable volume) is still emitted, with baseline 0
   and rate 0. *)
CandleCallFails(c) == ~ReadableCandle(c)

BaselineFailureDegradesToZero ==
    (variant = "candle" /\ upbit.done /\ ~upbit.failed) =>
        \A i \in 1..Len(upbit.all_tickers) :
            (WellFormedCandleTicker(upbit.all_tickers[i]) /\ CandleCallFails(candles[i])) =>
                \E r \in Range(upbit.data) :
                    /\ r.market = upbit.all_tickers[i].market
                    /\ r.yesterday_volume = RZero
                    /\ r.volume_change_rate = RZero

(* C10: a button refresh always overwrites the cache: when every fetch of the
   refresh failed the cached batch is empty and last_update is the refresh's
   time; no endpoint is called more often than once (per chunk, per asset). *)
RefreshAlwaysOverwrites ==
    /\ (button /\ pc \in {"coldstart", "render", "idle"}) =>
          /\ Refreshed
          /\ writer.last_update = runs
          /\ session_state.has_data
          /\ session_state.last_update = strftime(now)
          /\ ok_calls = 0 => session_state.data = <<>>
    /\ calls.markets <= 1
    /\ calls.bithumb <= 1
    /\ upbit.done =>
          /\ calls.ticker <= Len(Chunks(market_codes))
          /\ calls.candle <= Len(upbit.all_tickers)

RefreshOverwritesWitness ==
    /\ button /\ pc = "render"
    /\ cache0.data # <<>>
    /\ ok_calls = 0
    /\ calls.markets = 1
    /\ session_state.data = <<>>

=============================================================================
